---- MODULE Spec2Model ----
(***************************************************************************)
(* kent-court-tracker: the two batch programs tracker.py (CPS South East   *)
(* and Kent Police news pages) and pink_tracker.py (PinkNews through the   *)
(* Google News RSS search).  Each run loads its state file, fetches and    *)
(* classifies candidates, de-dupes, sorts, caps and rewrites its state     *)
(* file and its feed file.                                                 *)
(*                                                                         *)
(* Strings.  A text is modelled as the set of vocabulary phrases that      *)
(* occur in its lower-cased form; `term in text` of the source is          *)
(* Contains(text, term): the term is a substring of a phrase of the text.  *)
(* Dates are <<year, month, day>>; an ISO date string is the sequence of   *)
(* its ten character codes, so that the string comparisons of the sort     *)
(* are the comparisons the source makes.                                   *)
(***************************************************************************)
EXTENDS Integers, Sequences, FiniteSets, TLC

(***************************************************************************)
(* Term lists of the source (verbatim).                                    *)
(***************************************************************************)
LGBT_TERMS ==
    { "homophobic", "homophobia", "transphobic", "transphobia",
      "biphobic", "biphobia", "sexual orientation", "gender identity",
      "lgbt", "lgbtq", "lgbtq+", "lgbtqia", "lgbtqia+",
      "gay", "lesbian", "bisexual", "trans", "transgender",
      "non-binary", "non binary", "nonbinary" }

HATE_TERMS == { "hate crime", "hate-crime", "hatecrime", "hostility", "prejudice" }

COURT_TERMS ==
    { "court", "crown court", "magistrates", "jailed", "sentenced", "convicted",
      "pleaded guilty", "pleaded", "charged", "appeared", "remanded" }

KENT_HINTS ==
    { "kent", "maidstone", "canterbury", "medway", "chatham", "gillingham",
      "rochester", "ashford", "dartford", "gravesend", "tonbridge", "tunbridge",
      "sevenoaks", "folkestone", "dover", "deal", "whitstable", "herne bay",
      "sittingbourne", "sheerness", "sheppey", "isle of sheppey", "thanet",
      "margate", "ramsgate", "broadstairs", "swale", "faversham", "cranbrook",
      "tenterden" }

STRONG_TERMS == { "homophobic", "transphobic", "biphobic" }

AREAS ==
    { "ashford", "broadstairs", "canterbury", "chatham", "dartford", "deal",
      "dover", "faversham", "folkestone", "gillingham", "gravesend", "herne bay",
      "hythe", "isle of sheppey", "maidstone", "margate", "medway", "ramsgate",
      "rochester", "sevenoaks", "sheerness", "sheppey", "sittingbourne", "swale",
      "thanet", "tonbridge", "tunbridge wells", "whitstable" }

BLOCK_TERMS ==
    { "kent state", "kent state university", "kent, ohio", "ohio", "usa", "u.s.",
      "united states" }

TOPIC_TERMS ==
    { "lgbt", "lgbtq", "lgbtq+", "lgbtqia", "lgbtqia+",
      "gay", "lesbian", "bisexual", "trans", "transgender",
      "non-binary", "non binary", "nonbinary",
      "homophobic", "homophobia", "transphobic", "transphobia",
      "biphobic", "biphobia", "hate crime", "hate-crime", "hatecrime",
      "sexual orientation", "gender identity", "pride" }

(***************************************************************************)
(* The phrases the modelled texts are made of, and the proper-substring    *)
(* pairs <<term, phrase>> between a term of the lists above and a phrase.  *)
(***************************************************************************)
Vocabulary ==
    { "homophobic", "homophobia", "sexual orientation", "gay", "transgender",
      "pride", "hate crime", "court", "kent", "maidstone", "united states",
      "kent, ohio", "pinknews", "thepinknews.com", "google news" }

SubPairs ==
    { <<"trans", "transgender">>, <<"kent", "kent, ohio">>, <<"ohio", "kent, ohio">>,
      <<"pinknews", "thepinknews.com">> }

Contains(text, term) == \E p \in text : term = p \/ <<term, p>> \in SubPairs

ContainsAny(text, terms) == \E t \in terms : Contains(text, t)

(***************************************************************************)
(* tracker.py: the classifier.                                             *)
(***************************************************************************)
looks_relevant(text_lower) ==
    LET has_lgbt  == ContainsAny(text_lower, LGBT_TERMS)
        has_hate  == ContainsAny(text_lower, HATE_TERMS)
        has_court == ContainsAny(text_lower, COURT_TERMS)
        strong    == ContainsAny(text_lower, STRONG_TERMS)
    IN  (strong /\ has_lgbt) \/ (has_lgbt /\ (has_hate \/ has_court))

is_kent_related(text_lower) == ContainsAny(text_lower, KENT_HINTS)

KentLabel(text_lower) ==
    IF ContainsAny(text_lower, COURT_TERMS) THEN "Court update"
    ELSE IF ContainsAny(text_lower, HATE_TERMS) THEN "Hate crime update"
    ELSE "Kent Police"

CpsLabel(confirm_lower) ==
    IF ContainsAny(confirm_lower, COURT_TERMS) THEN "Court update" ELSE "CPS update"

(***************************************************************************)
(* pink_tracker.py: the classifier.                                        *)
(***************************************************************************)
looks_like_kent_area(t) ==
    IF ContainsAny(t, BLOCK_TERMS) THEN FALSE
    ELSE IF Contains(t, "kent") THEN TRUE
    ELSE ContainsAny(t, AREAS)

has_topic_signal(t) == ContainsAny(t, TOPIC_TERMS)

\* the urls of the model, and the phrases that occur in each
G1 == "https://news.google.com/rss/articles/a1"
G2 == "https://news.google.com/rss/articles/a2"
P3 == "https://www.thepinknews.com/a3"
K1 == "https://www.kent.police.uk/news/n1"
K2 == "https://www.kent.police.uk/news/n2"
K3 == "https://www.kent.police.uk/news/n3"

UrlText(u) == IF u = P3 THEN {"thepinknews.com"} ELSE {}

is_pinknews(it) ==
    \/ Contains(it.source_url, "thepinknews.com")
    \/ Contains(it.source, "pinknews")
    \/ Contains(UrlText(it.url), "thepinknews.com")

\* f'{title} {summary} {source} {source_url} {url}'
combined(it) ==
    it.title \cup it.summary \cup it.source \cup it.source_url \cup UrlText(it.url)

PinkLabel(it) == "PinkNews"

(***************************************************************************)
(* Dates, ISO date strings and string order.                               *)
(***************************************************************************)
NoDate == <<>>

DateLess(a, b) ==
    \/ a[1] < b[1]
    \/ a[1] = b[1] /\ a[2] < b[2]
    \/ a[1] = b[1] /\ a[2] = b[2] /\ a[3] < b[3]

\* datetime.now(timezone.utc) - timedelta(days=365 * LOOKBACK_YEARS), as a day;
\* the runs that are followed are close enough in time to share it
cutoff == <<2021, 11, 6>>

Digit(n) == 48 + n

\* date.isoformat(): "YYYY-MM-DD", zero padded, as character codes ("-" is 45)
isoformat(d) ==
    << Digit(d[1] \div 1000), Digit((d[1] \div 100) % 10), Digit((d[1] \div 10) % 10),
       Digit(d[1] % 10), 45, Digit(d[2] \div 10), Digit(d[2] % 10), 45,
       Digit(d[3] \div 10), Digit(d[3] % 10) >>

\* datetime.strptime(s, "%Y-%m-%d")
strptime(s) ==
    << (s[1] - 48) * 1000 + (s[2] - 48) * 100 + (s[3] - 48) * 10 + (s[4] - 48),
       (s[6] - 48) * 10 + (s[7] - 48),
       (s[9] - 48) * 10 + (s[10] - 48) >>

published_of(dt) == IF dt = NoDate THEN NoDate ELSE isoformat(dt)

\* Python's str <: lexicographic on the characters, a proper prefix is smaller
RECURSIVE StrLess(_, _)
StrLess(a, b) ==
    IF b = <<>> THEN FALSE
    ELSE IF a = <<>> THEN TRUE
    ELSE IF a[1] # b[1] THEN a[1] < b[1]
    ELSE StrLess(Tail(a), Tail(b))

(***************************************************************************)
(* list.sort(key=..., reverse=True): stable, descending.  keys[i] is the   *)
(* key of s[i]; an element goes after every element whose key is >= its.   *)
(***************************************************************************)
RECURSIVE InsertDesc(_, _, _, _)
InsertDesc(s, ks, x, k) ==
    IF s = <<>> THEN <<x>>
    ELSE IF StrLess(Head(ks), k) THEN <<x>> \o s
    ELSE <<Head(s)>> \o InsertDesc(Tail(s), Tail(ks), x, k)

RECURSIVE InsertKey(_, _)
InsertKey(ks, k) ==
    IF ks = <<>> THEN <<k>>
    ELSE IF StrLess(Head(ks), k) THEN <<k>> \o ks
    ELSE <<Head(ks)>> \o InsertKey(Tail(ks), k)

RECURSIVE SortFrom(_, _, _, _, _)
SortFrom(s, keys, i, acc, acck) ==
    IF i > Len(s) THEN acc
    ELSE SortFrom(s, keys, i + 1, InsertDesc(acc, acck, s[i], keys[i]),
                  InsertKey(acck, keys[i]))

SortDesc(s, keys) == SortFrom(s, keys, 1, <<>>, <<>>)

\* tracker.py sort_key: it.get("published") or ""
sort_key(it) == IF it.published = NoDate THEN <<>> ELSE it.published

\* pink_tracker.py: lambda x: x.get("published") or "0000-00-00"
pink_sort_key(x) ==
    IF x.published = NoDate THEN <<48, 48, 48, 48, 45, 48, 48, 45, 48, 48>>
    ELSE x.published

(***************************************************************************)
(* dict keyed by url: a url keeps the place of its first item and the      *)
(* value of its last one.                                                  *)
(***************************************************************************)
RECURSIVE Put(_, _)
Put(d, it) ==
    IF d = <<>> THEN <<it>>
    ELSE IF Head(d).url = it.url THEN <<it>> \o Tail(d)
    ELSE <<Head(d)>> \o Put(Tail(d), it)

RECURSIVE DedupFrom(_, _, _)
DedupFrom(its, i, d) ==
    IF i > Len(its) THEN d
    ELSE DedupFrom(its, i + 1, IF its[i].url # "" THEN Put(d, its[i]) ELSE d)

\* a de-dupe that keeps every item
no_dedup(its) == its

\* tracker.py main: for it in items: u = it.get("url"); if u: dedup[u] = it
dedup_tracker(its) == DedupFrom(its, 1, <<>>)

RECURSIVE DedupAll(_, _, _)
DedupAll(its, i, d) ==
    IF i > Len(its) THEN d ELSE DedupAll(its, i + 1, Put(d, its[i]))

\* pink_tracker.py main: {it["url"]: it for it in collected}
dedup_pink(its) == DedupAll(its, 1, <<>>)

\* a cap that cuts nothing
TakeAll(s, n) == s

\* s[:n]
Take(s, n) == SubSeq(s, 1, IF Len(s) < n THEN Len(s) ELSE n)

UrlsOf(s) == { s[i].url : i \in DOMAIN s }

\* list(seen)[:n]: the order of a set is not defined, any n of its members
Truncations(S, n) ==
    IF Cardinality(S) <= n THEN {S} ELSE { T \in SUBSET S : Cardinality(T) = n }

(***************************************************************************)
(* Sizes.  The source's constants are scaled down so that every cap is     *)
(* reached: MAX_ITEMS is 200, MAX_PAGES 120, MAX_ITEMS_PER_QUERY 60, the   *)
(* seen caps 20000 (tracker.py) and 50000 (pink_tracker.py), and           *)
(* pink_tracker.py runs 10 queries.                                        *)
(***************************************************************************)
MAX_ITEMS == 2
MAX_PAGES == 2
MAX_ITEMS_PER_QUERY == 2
MAX_SEEN_TRACKER == 2
MAX_SEEN_PINK == 2
NumQueries == 2

categories == << "Policing news", "Justice Seen Justice Done" >>

(***************************************************************************)
(* What the sources can return.  D0 is older than the cutoff.              *)
(***************************************************************************)
D0 == <<2019, 3, 9>>
D1 == <<2023, 9, 20>>
D2 == <<2023, 12, 1>>

NoArticle == [ok |-> FALSE, title |-> {}, summary |-> {}]

Article(t, s) == [ok |-> TRUE, title |-> t, summary |-> s]

\* h3 cards of the CPS news pages: link, title, the text of the card around
\* the title, the date parse_published_cps finds in it, and the article page
CpsCards ==
    { [url |-> K1, published_dt |-> D2, title |-> {"gay", "kent"},
       blob |-> {"hate crime"}, art |-> Article({"gay", "kent"}, {"hate crime"})],
      [url |-> K2, published_dt |-> D0, title |-> {"homophobic", "kent"},
       blob |-> {"court"}, art |-> Article({"homophobic", "kent"}, {"court"})],
      [url |-> K2, published_dt |-> D1, title |-> {"homophobic"},
       blob |-> {"court", "kent"}, art |-> NoArticle],
      [url |-> K3, published_dt |-> NoDate, title |-> {"gay", "kent"},
       blob |-> {}, art |-> Article({"gay", "kent"}, {})] }

\* h3 cards of the Kent Police news pages
KentCards ==
    { [url |-> K1, published_dt |-> D1, title |-> {"homophobic", "maidstone"},
       blob |-> {"court"}, art |-> Article({"homophobic", "maidstone"}, {"court"})],
      [url |-> K2, published_dt |-> NoDate, title |-> {"homophobic", "kent, ohio"},
       blob |-> {}, art |-> NoArticle],
      [url |-> K3, published_dt |-> D2, title |-> {"gay"},
       blob |-> {"hate crime"}, art |-> Article({"gay"}, {"hate crime"})],
      [url |-> K3, published_dt |-> D0, title |-> {"homophobic", "kent"},
       blob |-> {}, art |-> Article({"homophobic", "kent"}, {})],
      [url |-> K3, published_dt |-> D1, title |-> {"sexual orientation", "kent"},
       blob |-> {}, art |-> Article({"sexual orientation", "kent"}, {})] }

\* <item> elements of the RSS answers: link, title, description, source name
\* and url, and the date parse_rss_date finds in pubDate
RssElements ==
    { [url |-> G1, title |-> {"homophobic", "maidstone"}, dt |-> D2,
       desc |-> {"court"}, source_name |-> {"pinknews"},
       source_url |-> {"thepinknews.com"}],
      [url |-> G1, title |-> {"homophobic", "maidstone"}, dt |-> D1,
       desc |-> {"hate crime"}, source_name |-> {"pinknews"},
       source_url |-> {"thepinknews.com"}],
      [url |-> G2, title |-> {"gay", "kent"}, dt |-> NoDate,
       desc |-> {}, source_name |-> {"pinknews"},
       source_url |-> {"thepinknews.com"}],
      [url |-> P3, title |-> {"transgender", "kent"}, dt |-> D1,
       desc |-> {}, source_name |-> {}, source_url |-> {}],
      [url |-> P3, title |-> {"homophobic", "kent, ohio"}, dt |-> D2,
       desc |-> {}, source_name |-> {"pinknews"},
       source_url |-> {"thepinknews.com"}],
      [url |-> G2, title |-> {"homophobic", "kent"}, dt |-> D0,
       desc |-> {}, source_name |-> {"pinknews"},
       source_url |-> {"thepinknews.com"}],
      [url |-> "", title |-> {"homophobic", "kent"}, dt |-> D1,
       desc |-> {}, source_name |-> {"pinknews"},
       source_url |-> {"thepinknews.com"}],
      [url |-> G2, title |-> {"pride", "kent"}, dt |-> D1,
       desc |-> {}, source_name |-> {}, source_url |-> {}],
      [url |-> G2, title |-> {"court", "kent"}, dt |-> D1,
       desc |-> {}, source_name |-> {"pinknews"},
       source_url |-> {"thepinknews.com"}],
      [url |-> G2, title |-> {"gay"}, dt |-> D1,
       desc |-> {"hate crime"}, source_name |-> {"pinknews"},
       source_url |-> {"thepinknews.com"}] }

(***************************************************************************)
(* State.  prog is the program this deployment runs: the two programs      *)
(* share no file (feed.json, state.json / pinknews.json, pink_state.json)  *)
(* and no memory, so each is followed on its own files.                    *)
(***************************************************************************)
VARIABLES
    prog,           \* "tracker" | "pink" | "classify"
    pc,             \* where main is
    state_file,     \* STATE_FILE: its seen_urls
    feed_file,      \* FEED_FILE
    seen,           \* main: seen
    cps_items,      \* fetch_cps: items
    kent_items,     \* fetch_kent_police: items
    collected,      \* pink_tracker main: collected
    page,           \* fetch_cps, fetch_kent_police: page
    cat,            \* fetch_kent_police: index of ct in categories
    page_dates,     \* the latest date of page_dates (only its max is read)
    qi,             \* pink_tracker main: index of q in queries
    idx,            \* pink_tracker main: items of the query already looped over
    seen_at_start,  \* history: seen as loaded by this run
    feed_at_start,  \* history: FEED_FILE when this run started
    fetched,        \* history: the fetches this run made
    failed,         \* history: those that failed
    offered,        \* history: items of the candidates that passed the filters
    written,        \* history: the files this run saved
    probe,          \* classifier check: the input
    verdict         \* classifier check: the outputs

vars ==
    << prog, pc, state_file, feed_file, seen, cps_items, kent_items, collected,
       page, cat, page_dates, qi, idx, seen_at_start, feed_at_start, fetched,
       failed, offered, written, probe, verdict >>

files == << state_file, feed_file >>
hist_start == << seen_at_start, feed_at_start >>
classify_vars == << probe, verdict >>
pink_vars == << collected, qi, idx >>
tracker_vars == << cps_items, kent_items, page, cat, page_dates >>

STATE_FILE == "state"
FEED_FILE == "feed"

NoProbe == [text |-> {}]
NoVerdict == [done |-> FALSE]

Init ==
    /\ prog \in {"tracker", "pink"}
    /\ pc = "idle"
    /\ state_file = {}
    /\ feed_file = <<>>
    /\ seen = {}
    /\ cps_items = <<>>
    /\ kent_items = <<>>
    /\ collected = <<>>
    /\ page = 0
    /\ cat = 0
    /\ page_dates = NoDate
    /\ qi = 0
    /\ idx = 0
    /\ seen_at_start = {}
    /\ feed_at_start = <<>>
    /\ fetched = {}
    /\ failed = {}
    /\ offered = {}
    /\ written = {}
    /\ probe = NoProbe
    /\ verdict = NoVerdict

(***************************************************************************)
(* main, up to the first fetch: load_json(STATE_FILE, {"seen_urls": []}).  *)
(* A missing file reads as the fallback, the empty list.                   *)
(***************************************************************************)
Start ==
    /\ pc \in {"idle", "done"}
    /\ prog \in {"tracker", "pink"}
    /\ seen' = state_file
    /\ seen_at_start' = state_file
    /\ feed_at_start' = feed_file
    /\ cps_items' = <<>>
    /\ kent_items' = <<>>
    /\ collected' = <<>>
    /\ page_dates' = NoDate
    /\ cat' = 0
    /\ idx' = 0
    /\ fetched' = {}
    /\ failed' = {}
    /\ offered' = {}
    /\ written' = {}
    /\ IF prog = "tracker"
         THEN pc' = "cps_fetch" /\ page' = 0 /\ qi' = 0
         ELSE pc' = "rss_fetch" /\ page' = 0 /\ qi' = 1
    /\ UNCHANGED << prog, files, classify_vars >>

(***************************************************************************)
(* tracker.py: fetch_cps                                                   *)
(***************************************************************************)
\* a recency test that also drops the candidates with no date
recent_dated_only(published_dt) ==
    published_dt # NoDate /\ ~DateLess(published_dt, cutoff)

\* published_dt and published_dt < cutoff: continue
recent(published_dt) == ~(published_dt # NoDate /\ DateLess(published_dt, cutoff))

\* safe_get failed: ("", ""); else the h1 and the first long paragraph
parse_article_title_summary(art) ==
    IF art.ok THEN [title |-> art.title, summary |-> art.summary]
    ELSE [title |-> {}, summary |-> {}]

ArticleTitle(c) ==
    LET a == parse_article_title_summary(c.art)
    IN  IF a.title # {} THEN a.title ELSE c.title

confirm_lower(c) == ArticleTitle(c) \cup parse_article_title_summary(c.art).summary

\* the topic and location tests of fetch_cps
cps_matches(c) ==
    /\ looks_relevant(c.title \cup c.blob)
    /\ is_kent_related(confirm_lower(c))

cps_admits(c) == recent(c.published_dt) /\ cps_matches(c)

\* history: a candidate with no date, or a date not before the cutoff
Eligible(dt) == dt = NoDate \/ ~DateLess(dt, cutoff)

\* the dict fetch_cps appends (art_summary[:400] cuts nothing of the short
\* summaries used here)
cps_item(c) ==
    [ source |-> "CPS South East",
      label |-> CpsLabel(confirm_lower(c)),
      title |-> ArticleTitle(c),
      url |-> c.url,
      published |-> published_of(c.published_dt),
      summary |-> parse_article_title_summary(c.art).summary ]

\* page_dates.append(published_dt), kept as max(page_dates)
add_page_date(pd, published_dt) ==
    IF published_dt # NoDate /\ (pd = NoDate \/ DateLess(pd, published_dt))
    THEN published_dt ELSE pd

\* if page_dates and max(page_dates) < cutoff: break
page_is_old(pd) == pd # NoDate /\ DateLess(pd, cutoff)

\* main: items.extend(fetch_cps(cutoff)); items.extend(fetch_kent_police(cutoff))
ToKent ==
    /\ pc' = "kent_fetch"
    /\ cat' = 1
    /\ page' = 1
    /\ page_dates' = NoDate

\* html = safe_get(url); if not html: break
CpsFetchFail ==
    /\ pc = "cps_fetch"
    /\ fetched' = fetched \cup {<<"cps", 0, page>>}
    /\ failed' = failed \cup {<<"cps", 0, page>>}
    /\ ToKent
    /\ UNCHANGED << prog, files, seen, cps_items, kent_items, pink_vars,
                    hist_start, offered, written, classify_vars >>

\* h3s = soup.find_all("h3"); if not h3s: break
CpsFetchEmpty ==
    /\ pc = "cps_fetch"
    /\ fetched' = fetched \cup {<<"cps", 0, page>>}
    /\ ToKent
    /\ UNCHANGED << prog, files, seen, cps_items, kent_items, pink_vars,
                    hist_start, failed, offered, written, classify_vars >>

CpsFetchOk ==
    /\ pc = "cps_fetch"
    /\ fetched' = fetched \cup {<<"cps", 0, page>>}
    /\ pc' = "cps_cards"
    /\ page_dates' = NoDate
    /\ UNCHANGED << prog, files, seen, cps_items, kent_items, pink_vars, page, cat,
                    hist_start, failed, offered, written, classify_vars >>

\* one pass of: for h3 in h3s (an h3 with no link is passed over)
CpsCard(c) ==
    /\ pc = "cps_cards"
    /\ offered' = IF cps_matches(c) /\ Eligible(c.published_dt)
                    THEN offered \cup {cps_item(c)} ELSE offered
    /\ IF cps_admits(c)
         THEN /\ cps_items' = Append(cps_items, cps_item(c))
              /\ IF Len(cps_items) + 1 >= MAX_ITEMS
                   THEN ToKent
                   ELSE /\ page_dates' = add_page_date(page_dates, c.published_dt)
                        /\ UNCHANGED << pc, page, cat >>
         ELSE /\ page_dates' = add_page_date(page_dates, c.published_dt)
              /\ UNCHANGED << cps_items, pc, page, cat >>
    /\ UNCHANGED << prog, files, seen, kent_items, pink_vars, hist_start,
                    fetched, failed, written, classify_vars >>

\* after the cards of a page: the date break, else the next page
CpsPageEnd ==
    /\ pc = "cps_cards"
    /\ IF page_is_old(page_dates) \/ page + 1 >= MAX_PAGES
         THEN ToKent
         ELSE /\ pc' = "cps_fetch"
              /\ page' = page + 1
              /\ page_dates' = NoDate
              /\ cat' = cat
    /\ UNCHANGED << prog, files, seen, cps_items, kent_items, pink_vars,
                    hist_start, fetched, failed, offered, written, classify_vars >>

(***************************************************************************)
(* tracker.py: fetch_kent_police                                           *)
(***************************************************************************)
\* the topic test of fetch_kent_police (it has no location test)
kent_matches(c) == looks_relevant(c.title \cup c.blob)

kent_admits(c) == recent(c.published_dt) /\ kent_matches(c)

kent_item(c) ==
    [ source |-> "Kent Police",
      label |-> KentLabel(c.title \cup c.blob),
      title |-> ArticleTitle(c),
      url |-> c.url,
      published |-> published_of(c.published_dt),
      summary |-> parse_article_title_summary(c.art).summary ]

\* fetch_kent_police returns: main goes on to the de-dupe
ToFinish ==
    /\ pc' = "finish"
    /\ cat' = 0
    /\ page' = 0
    /\ page_dates' = NoDate

\* the page loop of a category is left: the next category, if any
NextCategory ==
    IF cat < Len(categories)
    THEN /\ pc' = "kent_fetch"
         /\ cat' = cat + 1
         /\ page' = 1
         /\ page_dates' = NoDate
    ELSE ToFinish

\* html is None: blocked = True; break; and then: if blocked: break
KentFetchFail ==
    /\ pc = "kent_fetch"
    /\ fetched' = fetched \cup {<<"kent", cat, page>>}
    /\ failed' = failed \cup {<<"kent", cat, page>>}
    /\ ToFinish
    /\ UNCHANGED << prog, files, seen, cps_items, kent_items, pink_vars,
                    hist_start, offered, written, classify_vars >>

\* cards = soup.find_all("h3"); if not cards: break
KentFetchEmpty ==
    /\ pc = "kent_fetch"
    /\ fetched' = fetched \cup {<<"kent", cat, page>>}
    /\ NextCategory
    /\ UNCHANGED << prog, files, seen, cps_items, kent_items, pink_vars,
                    hist_start, failed, offered, written, classify_vars >>

KentFetchOk ==
    /\ pc = "kent_fetch"
    /\ fetched' = fetched \cup {<<"kent", cat, page>>}
    /\ pc' = "kent_cards"
    /\ page_dates' = NoDate
    /\ UNCHANGED << prog, files, seen, cps_items, kent_items, pink_vars, page, cat,
                    hist_start, failed, offered, written, classify_vars >>

\* one pass of: for h3 in cards
KentCard(c) ==
    /\ pc = "kent_cards"
    /\ offered' = IF kent_matches(c) /\ Eligible(c.published_dt)
                    THEN offered \cup {kent_item(c)} ELSE offered
    /\ IF kent_admits(c)
         THEN /\ kent_items' = Append(kent_items, kent_item(c))
              /\ IF Len(kent_items) + 1 >= MAX_ITEMS
                   THEN ToFinish
                   ELSE /\ page_dates' = add_page_date(page_dates, c.published_dt)
                        /\ UNCHANGED << pc, page, cat >>
         ELSE /\ page_dates' = add_page_date(page_dates, c.published_dt)
              /\ UNCHANGED << kent_items, pc, page, cat >>
    /\ UNCHANGED << prog, files, seen, cps_items, pink_vars, hist_start,
                    fetched, failed, written, classify_vars >>

\* after the cards of a page: the date break, else the next page
KentPageEnd ==
    /\ pc = "kent_cards"
    /\ IF page_is_old(page_dates) \/ page >= MAX_PAGES
         THEN NextCategory
         ELSE /\ pc' = "kent_fetch"
              /\ page' = page + 1
              /\ page_dates' = NoDate
              /\ cat' = cat
    /\ UNCHANGED << prog, files, seen, cps_items, kent_items, pink_vars,
                    hist_start, fetched, failed, offered, written, classify_vars >>

(***************************************************************************)
(* tracker.py: main, from the de-dupe to the two saves                     *)
(***************************************************************************)
tracker_out(its) ==
    LET out == dedup_tracker(its)
        sorted == SortDesc(out, [i \in DOMAIN out |-> sort_key(out[i])])
    IN  Take(sorted, MAX_ITEMS)

TrackerFinish ==
    /\ pc = "finish"
    /\ prog = "tracker"
    /\ LET out == tracker_out(cps_items \o kent_items)
       IN  /\ seen' = seen \cup UrlsOf(out)
           /\ state_file' \in Truncations(seen \cup UrlsOf(out), MAX_SEEN_TRACKER)
           /\ feed_file' = out
    /\ written' = {STATE_FILE, FEED_FILE}
    /\ pc' = "done"
    /\ UNCHANGED << prog, tracker_vars, pink_vars, hist_start, fetched, failed,
                    offered, classify_vars >>

(***************************************************************************)
(* pink_tracker.py                                                         *)
(***************************************************************************)
\* rss_items: the dict made of one <item>
rss_item(e) ==
    [ title |-> e.title,
      url |-> e.url,
      published |-> published_of(e.dt),
      source |-> IF e.source_name # {} THEN e.source_name ELSE {"google news"},
      source_url |-> e.source_url,
      summary |-> e.desc ]

\* if it.get("published"): dt = strptime(...); if dt < cutoff: continue
pink_recent(it) ==
    ~(it.published # NoDate /\ DateLess(strptime(it.published), cutoff))

\* the location, topic and source tests of pink_tracker main
pink_matches(it) ==
    /\ looks_like_kent_area(combined(it))
    /\ has_topic_signal(combined(it))
    /\ is_pinknews(it)

pink_admits(it) == pink_recent(it) /\ pink_matches(it)

\* it["label"] = "PinkNews" (found_at, the time of the run, is left out)
pink_item(it) ==
    [ title |-> it.title, url |-> it.url, published |-> it.published,
      source |-> it.source, source_url |-> it.source_url, summary |-> it.summary,
      label |-> PinkLabel(it) ]

\* the next q of: for q in queries
NextQuery ==
    IF qi < NumQueries
    THEN /\ pc' = "rss_fetch"
         /\ qi' = qi + 1
         /\ idx' = 0
    ELSE /\ pc' = "finish"
         /\ qi' = 0
         /\ idx' = 0

\* a failed query that ends the loop over the queries
RssFetchFailAbort ==
    /\ pc = "rss_fetch"
    /\ fetched' = fetched \cup {<<"rss", 0, qi>>}
    /\ failed' = failed \cup {<<"rss", 0, qi>>}
    /\ pc' = "finish"
    /\ qi' = 0
    /\ idx' = 0
    /\ UNCHANGED << prog, files, seen, collected, tracker_vars, hist_start,
                    offered, written, classify_vars >>

\* xml_text = fetch_rss(q); if not xml_text: continue
RssFetchFail ==
    /\ pc = "rss_fetch"
    /\ fetched' = fetched \cup {<<"rss", 0, qi>>}
    /\ failed' = failed \cup {<<"rss", 0, qi>>}
    /\ NextQuery
    /\ UNCHANGED << prog, files, seen, collected, tracker_vars, hist_start,
                    offered, written, classify_vars >>

RssFetchOk ==
    /\ pc = "rss_fetch"
    /\ fetched' = fetched \cup {<<"rss", 0, qi>>}
    /\ pc' = "rss_items"
    /\ idx' = 0
    /\ UNCHANGED << prog, files, seen, collected, qi, tracker_vars, hist_start,
                    failed, offered, written, classify_vars >>

\* one pass of: for it in items, items = rss_items(xml_text)[:MAX_ITEMS_PER_QUERY]
RssItem(e) ==
    /\ pc = "rss_items"
    /\ idx < MAX_ITEMS_PER_QUERY
    /\ idx' = idx + 1
    /\ LET it == rss_item(e)
       IN  /\ offered' = IF it.url # "" /\ pink_matches(it) /\ Eligible(e.dt)
                           THEN offered \cup {pink_item(it)} ELSE offered
           /\ IF it.url # "" /\ it.url \notin seen /\ pink_admits(it)
                THEN /\ collected' = Append(collected, pink_item(it))
                     /\ seen' = seen \cup {it.url}
                ELSE UNCHANGED << collected, seen >>
    /\ UNCHANGED << prog, files, pc, qi, tracker_vars, hist_start, fetched,
                    failed, written, classify_vars >>

\* the items of the query are exhausted, or cut by the slice
RssItemsEnd ==
    /\ pc = "rss_items"
    /\ NextQuery
    /\ UNCHANGED << prog, files, seen, collected, tracker_vars, hist_start,
                    fetched, failed, offered, written, classify_vars >>

pink_out(its) ==
    LET out == dedup_pink(its)
        sorted == SortDesc(out, [i \in DOMAIN out |-> pink_sort_key(out[i])])
    IN  Take(sorted, MAX_ITEMS)

PinkFinish ==
    /\ pc = "finish"
    /\ prog = "pink"
    /\ state_file' \in Truncations(seen, MAX_SEEN_PINK)
    /\ feed_file' = pink_out(collected)
    /\ written' = {STATE_FILE, FEED_FILE}
    /\ pc' = "done"
    /\ UNCHANGED << prog, seen, tracker_vars, pink_vars, hist_start, fetched,
                    failed, offered, classify_vars >>

Next ==
    \/ Start
    \/ CpsFetchFail
    \/ CpsFetchEmpty
    \/ CpsFetchOk
    \/ \E c \in CpsCards : CpsCard(c)
    \/ CpsPageEnd
    \/ KentFetchFail
    \/ KentFetchEmpty
    \/ KentFetchOk
    \/ \E c \in KentCards : KentCard(c)
    \/ KentPageEnd
    \/ TrackerFinish
    \/ RssFetchFail
    \/ RssFetchOk
    \/ \E e \in RssElements : RssItem(e)
    \/ RssItemsEnd
    \/ PinkFinish

Spec == Init /\ [][Next]_vars

(***************************************************************************)
(* The classifiers as functions: every text over ProbePhrases is given to  *)
(* looks_relevant (tracker.py) and has_topic_signal (pink_tracker.py).     *)
(***************************************************************************)
ProbePhrases ==
    { "homophobic", "homophobia", "sexual orientation", "gay", "pride",
      "transgender", "hate crime", "court" }

InitClassify ==
    /\ prog = "classify"
    /\ pc = "idle"
    /\ state_file = {}
    /\ feed_file = <<>>
    /\ seen = {}
    /\ cps_items = <<>>
    /\ kent_items = <<>>
    /\ collected = <<>>
    /\ page = 0
    /\ cat = 0
    /\ page_dates = NoDate
    /\ qi = 0
    /\ idx = 0
    /\ seen_at_start = {}
    /\ feed_at_start = <<>>
    /\ fetched = {}
    /\ failed = {}
    /\ offered = {}
    /\ written = {}
    /\ probe \in [text : SUBSET ProbePhrases]
    /\ verdict = NoVerdict

Classify ==
    /\ prog = "classify"
    /\ ~verdict.done
    /\ verdict' = [ done |-> TRUE,
                    looks_relevant |-> looks_relevant(probe.text),
                    has_topic_signal |-> has_topic_signal(probe.text) ]
    /\ UNCHANGED << prog, pc, files, seen, tracker_vars, pink_vars, hist_start,
                    fetched, failed, offered, written, probe >>

NextClassify == Classify

SpecClassify == InitClassify /\ [][NextClassify]_vars

(***************************************************************************)
(* Properties.                                                             *)
(***************************************************************************)
Range(s) == { s[i] : i \in DOMAIN s }

\* the items this run appended to a list of admitted items
Admitted == Range(cps_items) \cup Range(kent_items) \cup Range(collected)

\* the text of a feed item that the filters matched on
ItemText(it) == IF prog = "pink" THEN combined(it) ELSE it.title \cup it.summary

MaxSeen == IF prog = "pink" THEN MAX_SEEN_PINK ELSE MAX_SEEN_TRACKER

\* C1: the feed file never holds two items with the same url.
C1_FeedUrlsUnique ==
    \A i, j \in DOMAIN feed_file : i # j => feed_file[i].url # feed_file[j].url

\* a run of tracker.py in which CPS and Kent Police returned the same url,
\* which is in the feed it wrote
C1_Witness ==
    /\ pc = "done"
    /\ prog = "tracker"
    /\ \E a, b \in offered :
          a.url = b.url /\ a.source # b.source /\ a.url \in UrlsOf(feed_file)

\* C2: the feed file holds at most MAX_ITEMS items and the state file at most
\* MAX_SEEN urls.
C2_Caps ==
    /\ Len(feed_file) <= MAX_ITEMS
    /\ Cardinality(state_file) <= MaxSeen

\* a run that admitted more urls than MAX_ITEMS and saw more than MAX_SEEN
C2_Witness ==
    /\ pc = "done"
    /\ Cardinality({ a.url : a \in Admitted }) > MAX_ITEMS
    /\ Len(feed_file) = MAX_ITEMS
    /\ Cardinality(seen) > MaxSeen
    /\ Cardinality(state_file) = MaxSeen

\* C3: no url of the feed a run writes was in seen_urls when the run loaded
\* its state.
C3_CrossRunSuppression ==
    pc = "done" => \A i \in DOMAIN feed_file : feed_file[i].url \notin seen_at_start

\* C4: when the feed at the start of a run holds an item for a url and the run
\* is offered a candidate for that url that passes the filters and has another
\* summary, the feed the run writes holds exactly one item for the url, with
\* the summary of a candidate of this run.
C4_MergePrecedence ==
    pc = "done" =>
        \A i \in DOMAIN feed_at_start :
            LET old == feed_at_start[i]
                new == { o \in offered : o.url = old.url }
            IN  (\E o \in new : o.summary # old.summary) =>
                  /\ Cardinality({ j \in DOMAIN feed_file :
                                     feed_file[j].url = old.url }) = 1
                  /\ \A j \in DOMAIN feed_file :
                        feed_file[j].url = old.url =>
                            feed_file[j].summary \in { o.summary : o \in new }

\* C5: an item of the feed at the start of a run is still in the feed the run
\* writes unless the cap cut it, and a run that admits nothing leaves the feed
\* as it was.
C5_FeedLifetime ==
    pc = "done" =>
        /\ \A i \in DOMAIN feed_at_start :
              \/ feed_at_start[i].url \in UrlsOf(feed_file)
              \/ Len(feed_file) = MAX_ITEMS
        /\ (Admitted = {} => feed_file = feed_at_start)

\* C6: no item of the feed has a block term in its text.
C6_BlockPrecedence ==
    \A i \in DOMAIN feed_file : ~ContainsAny(ItemText(feed_file[i]), BLOCK_TERMS)

\* C7: a candidate with no date that matches the topic and location tests (and
\* is not suppressed as already seen) is admitted, and is in the feed unless
\* the cap cut it; in the feed the items with no date come after every dated
\* item, and the dated items are in descending order of date.
C7_UndatedAdmittedAndLast ==
    pc = "done" =>
        /\ \A o \in offered :
              (o.published = NoDate
                 /\ (prog = "pink" => o.url \notin seen_at_start)) =>
                  /\ \E a \in Admitted : a.url = o.url
                  /\ o.url \in UrlsOf(feed_file) \/ Len(feed_file) = MAX_ITEMS
        /\ \A i, j \in DOMAIN feed_file :
              i < j =>
                  /\ feed_file[i].published = NoDate => feed_file[j].published = NoDate
                  /\ (feed_file[i].published # NoDate /\ feed_file[j].published # NoDate)
                       => ~DateLess(strptime(feed_file[i].published),
                                    strptime(feed_file[j].published))

\* a feed with a dated item first and an item with no date last, that item
\* being a candidate of the run that wrote it
C7_Witness ==
    /\ pc = "done"
    /\ Len(feed_file) >= 2
    /\ feed_file[1].published # NoDate
    /\ feed_file[Len(feed_file)].published = NoDate
    /\ feed_file[Len(feed_file)] \in offered

LaterFetched(f) ==
    /\ f[1] = "rss" => \A q \in (f[3] + 1)..NumQueries : <<"rss", 0, q>> \in fetched
    /\ f[1] = "cps" => /\ \A p \in (f[3] + 1)..(MAX_PAGES - 1) : <<"cps", 0, p>> \in fetched
                       /\ <<"kent", 1, 1>> \in fetched
    /\ f[1] = "kent" => \A c \in (f[2] + 1)..Len(categories) : <<"kent", c, 1>> \in fetched

\* C8 as stated: after a failed fetch every later query, page, category and
\* source of the run is still fetched, and both files are written.
C8_OnlyFailedFetchSkipped ==
    pc = "done" =>
        /\ written = {STATE_FILE, FEED_FILE}
        /\ \A f \in failed : LaterFetched(f)

\* C8: a failed query of pink_tracker.py skips that query alone; a failed CPS
\* page ends the CPS pages and a failed Kent Police page ends Kent Police, the
\* other source is still fetched; every run writes both files.
C8_FailureSkipsQueryOrSource ==
    pc = "done" =>
        /\ written = {STATE_FILE, FEED_FILE}
        /\ prog = "pink" => fetched = { <<"rss", 0, q>> : q \in 1..NumQueries }
        /\ prog = "tracker" => <<"kent", 1, 1>> \in fetched
        /\ \A f \in failed :
              /\ f[1] = "cps" => \A g \in fetched : g[1] = "cps" => g[3] <= f[3]
              /\ f[1] = "kent" =>
                    \A g \in fetched :
                        g[1] = "kent" => g[2] < f[2] \/ (g[2] = f[2] /\ g[3] <= f[3])

\* a run of pink_tracker.py whose first query failed and whose feed holds an
\* item of a later query
C8_Witness ==
    /\ pc = "done"
    /\ <<"rss", 0, 1>> \in failed
    /\ feed_file # <<>>

\* the vocabulary of claim C9
ClaimStrong ==
    { "homophobic", "homophobia", "transphobic", "transphobia", "biphobic",
      "biphobia", "sexual orientation", "gender identity" }
ClaimBroad == (LGBT_TERMS \cup TOPIC_TERMS) \ (ClaimStrong \cup HATE_TERMS)
ClaimCase == HATE_TERMS \cup COURT_TERMS

TwoTier(pass, text) ==
    /\ ContainsAny(text, ClaimStrong) => pass
    /\ (pass /\ ContainsAny(text, ClaimBroad) /\ ~ContainsAny(text, ClaimStrong))
          => ContainsAny(text, ClaimCase)

\* C9: in both programs a strong term passes the topic filter alone, and a
\* text whose topic terms are all broad passes only with a hate-crime phrase
\* or a judicial-process term.
C9_TwoTierTopicFilter ==
    verdict.done =>
        /\ TwoTier(verdict.looks_relevant, probe.text)
        /\ TwoTier(verdict.has_topic_signal, probe.text)

\* C10: every item of the feed has the court label if its text has a
\* judicial-process term, else the hate-crime label if it has a hate-crime
\* phrase, else the police label if its source is the police, else the
\* default label of its pipeline.
C10_LabelPrecedence ==
    \A i \in DOMAIN feed_file :
        LET it == feed_file[i]
            police == prog = "tracker" /\ it.source = "Kent Police"
        IN  it.label =
              IF ContainsAny(ItemText(it), COURT_TERMS) THEN "Court update"
              ELSE IF ContainsAny(ItemText(it), HATE_TERMS) THEN "Hate crime update"
              ELSE IF police THEN "Kent Police"
              ELSE IF prog = "pink" THEN "PinkNews" ELSE "CPS update"

====
